---- MODULE Spec2Model ----
(***************************************************************************)
(* Model of temp_parser.py: the paginated laptop scrape                    *)
(* (get_laptop_page_products), the per-product parse (parse_single_product *)
(* with parse_hdd_block_prices), get_num_pages, write_products_to_csv and  *)
(* main with its resource handling.                                        *)
(*                                                                         *)
(* Text is a sequence of one-character strings.  A Python call that can    *)
(* raise returns a record whose field exc names the exception class        *)
(* ("none" when it returned normally).                                     *)
(***************************************************************************)
EXTENDS Integers, Sequences, FiniteSets, TLC

\* ---------------------------------------------------------------- bounds
MaxPages == 3
MaxBlocks == 2
MaxButtons == 3
MaxLis == 3

\* ------------------------------------------------------------------ text
Digits == <<"0", "1", "2", "3", "4", "5", "6", "7", "8", "9">>

DigitSet == {Digits[i] : i \in 1..10}

DigitVal(c) == (CHOOSE i \in 1..10 : Digits[i] = c) - 1

RECURSIVE LStrip(_)
LStrip(s) == IF s # <<>> /\ Head(s) = " " THEN LStrip(Tail(s)) ELSE s

RECURSIVE RStrip(_)
RStrip(s) ==
  IF s # <<>> /\ s[Len(s)] = " " THEN RStrip(SubSeq(s, 1, Len(s) - 1)) ELSE s

Strip(s) == RStrip(LStrip(s))

RECURSIVE DecValue(_)
DecValue(s) ==
  IF s = <<>> THEN 0
  ELSE 10 * DecValue(SubSeq(s, 1, Len(s) - 1)) + DigitVal(s[Len(s)])

\* str.replace(ch, ""): every occurrence of ch is removed
RECURSIVE Remove(_, _)
Remove(s, ch) ==
  IF s = <<>> THEN <<>>
  ELSE IF Head(s) = ch THEN Remove(Tail(s), ch)
  ELSE <<Head(s)>> \o Remove(Tail(s), ch)

\* int(text) / float(text) on text over digits, blanks and other symbols:
\* surrounding blanks are ignored, anything but a non-empty digit run is a
\* ValueError
ParseNumber(s) ==
  LET t == Strip(s) IN
  IF t = <<>> \/ \E i \in 1..Len(t) : t[i] \notin DigitSet
  THEN [exc |-> "ValueError", val |-> 0]
  ELSE [exc |-> "none", val |-> DecValue(t)]

\* text.split()[0]: the first blank-delimited token
RECURSIVE TakeToken(_)
TakeToken(s) ==
  IF s = <<>> \/ Head(s) = " " THEN <<>>
  ELSE <<Head(s)>> \o TakeToken(Tail(s))

FirstToken(s) ==
  LET t == LStrip(s) IN
  IF t = <<>> THEN [exc |-> "IndexError", val |-> <<>>]
  ELSE [exc |-> "none", val |-> TakeToken(t)]

\* decimal text of a non-negative integer (the page numbers the site shows)
RECURSIVE NumText(_)
NumText(n) ==
  IF n < 10 THEN <<Digits[n + 1]>>
  ELSE NumText(n \div 10) \o <<Digits[(n % 10) + 1]>>

\* exception classes derived from Exception; KeyboardInterrupt is not
ExceptionClasses ==
  {"ValueError", "IndexError", "TypeError", "AttributeError",
   "WebDriverException", "RequestException", "OSError"}

\* ---------------------------------------------------------- get_num_pages
\* page_soup.pagination: present tells whether ".pagination" matched, lis
\* are the texts of its <li> entries in document order
NoPagination == [present |-> FALSE, lis |-> <<>>]

\* variant: reads the last entry instead of the second-to-last
get_num_pages_last(page_soup) ==
  LET lis == page_soup.pagination.lis IN
  IF ~page_soup.pagination.present THEN [exc |-> "none", val |-> 1]
  ELSE IF Len(lis) < 1 THEN [exc |-> "IndexError", val |-> 0]
  ELSE ParseNumber(lis[Len(lis)])

get_num_pages(page_soup) ==
  LET lis == page_soup.pagination.lis IN
  IF ~page_soup.pagination.present THEN [exc |-> "none", val |-> 1]
  ELSE IF Len(lis) < 2 THEN [exc |-> "IndexError", val |-> 0]
  ELSE ParseNumber(lis[Len(lis) - 1])

\* -------------------------------------------------- parse_hdd_block_prices
\* dict[str, float] as a function from keys to values
EmptyDict == [k \in {} |-> 0]

DictPut(d, k, v) == [x \in (DOMAIN d) \cup {k} |-> IF x = k THEN v ELSE d[x]]

\* variant: the disabled property is not consulted
is_enabled_always(button) == TRUE

\* "if not button.get_property("disabled")"
is_enabled(button) == ~button.disabled

\* the "for button in buttons" loop from button i on; prices and clicked are
\* the dictionary and the clicks made so far.  exc names the exception that
\* left the loop, with prices and clicked as they were at that moment.
RECURSIVE hdd_button_loop(_, _, _, _)
hdd_button_loop(buttons, i, prices, clicked) ==
  IF i > Len(buttons)
  THEN [exc |-> "none", prices |-> prices, clicked |-> clicked]
  ELSE
    LET button == buttons[i]
        price_value == ParseNumber(Remove(button.price.text, "$"))
    IN
    IF ~is_enabled(button)
    THEN hdd_button_loop(buttons, i + 1, prices, clicked)
    ELSE IF button.click # "ok"
    THEN [exc |-> IF button.click = "interrupt" THEN "KeyboardInterrupt"
                  ELSE "WebDriverException",
          prices |-> prices, clicked |-> clicked]
    ELSE IF ~button.price.present
    THEN [exc |-> "WebDriverException", prices |-> prices,
          clicked |-> Append(clicked, i)]
    ELSE IF price_value.exc # "none"
    THEN [exc |-> price_value.exc, prices |-> prices,
          clicked |-> Append(clicked, i)]
    ELSE hdd_button_loop(buttons, i + 1,
                         DictPut(prices, button.value, price_value.val),
                         Append(clicked, i))

\* the body of the try block: resolve the link, navigate, find the swatches,
\* walk the buttons.  drv is the state of the global driver.
hdd_try_body(product_soup, drv) ==
  LET nothing == [prices |-> EmptyDict, clicked |-> <<>>] IN
  IF ~product_soup.title_elem
  THEN [exc |-> "TypeError"] @@ nothing
  ELSE IF drv = "none"
  THEN [exc |-> "AttributeError"] @@ nothing
  ELSE IF drv # "open" \/ ~product_soup.detail.nav
          \/ ~product_soup.detail.swatches
  THEN [exc |-> "WebDriverException"] @@ nothing
  ELSE hdd_button_loop(product_soup.detail.buttons, 1, EmptyDict, <<>>)

\* variant: the except clause returns what was collected
hdd_except_return_collected(collected) == collected

\* "except Exception as e: ... return {}"; collected is the dictionary built
\* before the exception
hdd_except_return(collected) == EmptyDict

\* prices: the value returned (meaningful when raised = "none");
\* caught: the exception the except clause handled; raised: the exception
\* that left the function; collected: the dictionary as it was when the
\* try block ended; clicked: indexes of the buttons clicked, in order
parse_hdd_block_prices(product_soup, drv) ==
  LET r == hdd_try_body(product_soup, drv) IN
  [prices    |-> IF r.exc = "none" THEN r.prices
                 ELSE hdd_except_return(r.prices),
   caught    |-> IF r.exc \in ExceptionClasses THEN r.exc ELSE "none",
   raised    |-> IF r.exc # "none" /\ r.exc \notin ExceptionClasses
                 THEN r.exc ELSE "none",
   collected |-> r.prices,
   clicked   |-> r.clicked]

\* ----------------------------------------------------- parse_single_product
\* Product as a record; NoProduct stands where no Product was built
NoProduct ==
  [title |-> <<0, 0>>, description |-> <<>>, price |-> 0, rating |-> 0,
   num_of_reviews |-> 0, additional_info |-> [hdd_prices |-> EmptyDict]]

\* exc: the exception that left the function ("none": product was built)
parse_single_product(product, drv) ==
  LET hdd_prices == parse_hdd_block_prices(product, drv)
      price == ParseNumber(Remove(product.price.text, "$"))
      rating == ParseNumber(product.rating.text)
      token == FirstToken(product.reviews.text)
      num_of_reviews == ParseNumber(token.val)
      fail(e) == [exc |-> e, product |-> NoProduct,
                  clicked |-> hdd_prices.clicked]
  IN
  IF hdd_prices.raised # "none" THEN fail(hdd_prices.raised)
  ELSE IF ~product.title_elem THEN fail("TypeError")
  ELSE IF ~product.description.present THEN fail("AttributeError")
  ELSE IF ~product.price.present THEN fail("AttributeError")
  ELSE IF price.exc # "none" THEN fail(price.exc)
  ELSE IF ~product.rating.present THEN fail("TypeError")
  ELSE IF rating.exc # "none" THEN fail(rating.exc)
  ELSE IF ~product.reviews.present THEN fail("AttributeError")
  ELSE IF token.exc # "none" THEN fail(token.exc)
  ELSE IF num_of_reviews.exc # "none" THEN fail(num_of_reviews.exc)
  ELSE [exc |-> "none",
        product |-> [title |-> product.title,
                     description |-> product.description.text,
                     price |-> price.val,
                     rating |-> rating.val,
                     num_of_reviews |-> num_of_reviews.val,
                     additional_info |->
                       [hdd_prices |-> hdd_prices.prices]],
        clicked |-> hdd_prices.clicked]

\* ------------------------------------------------ get_single_page_products
\* variant: a failing product is swallowed and an empty Product stands for it
list_element_swallow(product, drv) ==
  LET r == parse_single_product(product, drv) IN
  IF r.exc \in ExceptionClasses THEN [r EXCEPT !.exc = "none"] ELSE r

\* the element expression of "[parse_single_product(product) for product in
\* products]": an exception of parse_single_product leaves the comprehension
list_element(product, drv) == parse_single_product(product, drv)

\* ------------------------------------------------ get_laptop_page_products
\* variant: the page's products are put in front
extend_front(all, page) == page \o all

\* "all_products.extend(page_products)"
extend(all, page) == all \o page

\* variant: only the generic parse errors are handled, request failures
\* pass through
caught_by_scrape_no_request(exc) ==
  exc \in ExceptionClasses \ {"RequestException"}

\* "except requests.exceptions.RequestException" and "except Exception":
\* the exceptions get_laptop_page_products handles itself
caught_by_scrape(exc) == exc \in ExceptionClasses

\* variant: the products gathered so far are returned
except_return_partial(all) == all

\* "return []" of both except clauses; all is all_products at that moment
except_return(all) == <<>>

\* ------------------------------------------------- write_products_to_csv
PRODUCT_FIELDS ==
  <<"title", "description", "price", "rating", "num_of_reviews",
    "additional_info">>

\* variant: price and rating change places
astuple_swapped(product) ==
  <<product.title, product.description, product.rating, product.price,
    product.num_of_reviews, product.additional_info>>

\* dataclasses.astuple: the field values in declaration order
astuple(product) ==
  <<product.title, product.description, product.price, product.rating,
    product.num_of_reviews, product.additional_info>>

\* the rows the writer emits: writerow(PRODUCT_FIELDS), then writerows(...)
csv_rows(products) ==
  <<PRODUCT_FIELDS>> \o [i \in 1..Len(products) |-> astuple(products[i])]

\* ------------------------------------------------------- the scraped site
Present(t) == [present |-> TRUE, text |-> t]

Absent == [present |-> FALSE, text |-> <<>>]

\* the <li> texts of a pagination control that lists pages 1..k between the
\* "previous" and the "next" control
PrevLi == <<"<">>

NextLi == <<">">>

PageLis(k) == [i \in 1..k |-> NumText(i)]

ListedPagination(k) ==
  [present |-> TRUE, lis |-> <<PrevLi>> \o PageLis(k) \o <<NextLi>>]

\* configuration buttons of a detail page
ConfigNames == {<<"1", "2", "8">>, <<"2", "5", "6">>}

PriceTexts == {<<"$", "5">>, <<"$", "1", "7">>}

Button(dis, val, clk, prc) ==
  [disabled |-> dis, value |-> val, click |-> clk, price |-> prc]

\* a card-body block of a listing page; title is the title attribute, which
\* the site makes the product's position <<page, index>>
Block(p, i, price, reviews, detail) ==
  [title |-> <<p, i>>, title_elem |-> TRUE,
   description |-> Present(<<"d">>),
   price |-> price,
   rating |-> Present(<<"3">>),
   reviews |-> reviews,
   detail |-> detail]

NoVariants == [nav |-> TRUE, swatches |-> FALSE, buttons |-> <<>>]

ThreeButtons ==
  [nav |-> TRUE, swatches |-> TRUE,
   buttons |-> << Button(FALSE, <<"1", "2", "8">>, "ok", Present(<<"$", "5">>)),
                  Button(TRUE, <<"2", "5", "6">>, "ok", Present(<<"$", "5">>)),
                  Button(FALSE, <<"5", "1", "2">>, "ok",
                         Present(<<"$", "1", "7">>)) >>]

InterruptedClick ==
  [nav |-> TRUE, swatches |-> TRUE,
   buttons |-> << Button(FALSE, <<"1", "2", "8">>, "interrupt",
                         Present(<<"$", "5">>)) >>]

\* the blocks a listing page can show at position <<p, i>>: a well-formed
\* one (products without and with configurations alternate), one whose price
\* text is not a number, one whose review count is empty, one during whose
\* parse the user interrupts
GoodBlocks(p, i) ==
  { Block(p, i, Present(<<"$", "9">>), Present(<<"4", " ", "r">>),
          IF (p + i) % 2 = 0 THEN NoVariants ELSE ThreeButtons) }

BadBlocks(p, i) ==
  { Block(p, i, Present(<<"$", "x">>), Present(<<"4", " ", "r">>), NoVariants),
    Block(p, i, Present(<<"$", "9">>), Present(<<" ">>), ThreeButtons) }

SiteBlocks(p, i) ==
  GoodBlocks(p, i) \cup BadBlocks(p, i)
    \cup { Block(p, i, Present(<<"$", "9">>), Present(<<"4", " ", "r">>),
                 InterruptedClick) }

\* the pagination controls page 1 can carry: none, pages 1..k, or a control
\* with too few or non-numeric entries.  Pages after the first are never
\* asked for their pagination.
SitePaginations(p) ==
  IF p = 1
  THEN {NoPagination} \cup {ListedPagination(k) : k \in 1..MaxPages}
         \cup {[present |-> TRUE, lis |-> <<NextLi>>],
               [present |-> TRUE, lis |-> <<PrevLi, NextLi>>]}
  ELSE {NoPagination}

\* a fetched page: nblocks card-body blocks and a pagination control.  What
\* a block holds is settled when the comprehension reaches it; blocks are
\* the ones reached so far.
Soups(p) ==
  { [nblocks |-> n, blocks |-> <<>>, pagination |-> pg] :
      n \in 0..MaxBlocks, pg \in SitePaginations(p) }

NoSoup == [nblocks |-> 0, blocks |-> <<>>, pagination |-> NoPagination]

\* what products.csv holds from an earlier run
OldFile == csv_rows(<<[NoProduct EXCEPT !.title = <<9, 9>>]>>)

\* ------------------------------------------------------------------ state
VARIABLES
  pc,             \* where main is: "start", "fetch", "parse", "write", "log",
                  \* "with_exit", "except_kb", "except_exc", "finally", "done"
  browser,        \* the Chrome session: "none", "open", "closed"
  driver,         \* the global _driver: "none" or "set"
  http,           \* the requests session: "open" or "closed"
  page_num,       \* page being fetched or parsed
  num_pages,      \* get_num_pages of the first page (0: not yet known)
  soup,           \* the page being parsed (blocks: those reached so far)
  blk,            \* index of the next block the list comprehension parses
  page_products,  \* products the list comprehension has built for this page
  all_products,   \* all_products of get_laptop_page_products
  products,       \* products of main
  returned,       \* get_laptop_page_products has returned to main
  pending,        \* exception travelling up to main's handlers
  file,           \* rows of products.csv
  log,            \* kinds of messages logged
  success_log,    \* the count in the success message (-1: not logged)
  \* history of the run
  site,           \* the soups fetched successfully, in fetch order
  fetched,        \* page numbers requested, in order
  calls,          \* titles of the blocks handed to parse_single_product
  clicks,         \* <<title, button index>> of every button clicked
  scrape_fail,    \* what get_laptop_page_products caught: "none", "fetch",
                  \* "block", "pagination"
  writes,         \* completed writes of products.csv
  handled,        \* exception main's except clauses handled
  interrupted_at, \* pc at which the first KeyboardInterrupt was raised
  write_failed,   \* write_products_to_csv raised
  misuse,         \* a command went to a released browser or HTTP session
  main_raised,    \* exception that left main
  probe           \* a single call of a function on a chosen argument

mainVars ==
  <<pc, browser, driver, http, page_num, num_pages, soup, blk, page_products,
    all_products, products, returned, pending, file, log, success_log, site,
    fetched, calls, clicks, scrape_fail, writes, handled, interrupted_at,
    write_failed, misuse, main_raised>>

vars == <<mainVars, probe>>

NoProbe == [fn |-> "none"]

MainInit ==
  /\ pc = "start"
  /\ browser = "none"
  /\ driver = "none"
  /\ http = "open"
  /\ page_num = 0
  /\ num_pages = 0
  /\ soup = NoSoup
  /\ blk = 0
  /\ page_products = <<>>
  /\ all_products = <<>>
  /\ products = <<>>
  /\ returned = FALSE
  /\ pending = "none"
  /\ file = OldFile
  /\ log = {}
  /\ success_log = -1
  /\ site = <<>>
  /\ fetched = <<>>
  /\ calls = <<>>
  /\ clicks = <<>>
  /\ scrape_fail = "none"
  /\ writes = 0
  /\ handled = "none"
  /\ interrupted_at = "none"
  /\ write_failed = FALSE
  /\ misuse = FALSE
  /\ main_raised = "none"

Init == MainInit /\ probe = NoProbe

\* the state of the browser behind the global driver
DriverState == IF driver = "none" THEN "none" ELSE browser

histVars == <<site, fetched, calls, clicks>>

resVars == <<browser, driver, http>>

outVars == <<file, log, success_log, writes>>

endVars == <<handled, main_raised, write_failed>>

\* --------------------------------------------------------------- main
\* "with webdriver.Chrome() as driver: set_driver(driver)"; a browser that
\* fails to start raises before the with block is entered
StartBrowser ==
  /\ pc = "start"
  /\ \/ /\ browser' = "open"
        /\ driver' = "set"
        /\ page_num' = 1
        /\ pc' = "fetch"
        /\ pending' = "none"
     \/ /\ pending' = "WebDriverException"
        /\ pc' = "except_exc"
        /\ UNCHANGED <<browser, driver, page_num>>
  /\ UNCHANGED <<http, num_pages, soup, blk, page_products, all_products,
                 products, returned, scrape_fail, interrupted_at, misuse, probe>>
  /\ UNCHANGED <<histVars, outVars, endVars>>

\* get_laptop_page_products leaves through "except ...: return []"; all is
\* all_products as assigned so far
ReturnEmpty(kind, all) ==
  /\ products' = except_return(all)
  /\ returned' = TRUE
  /\ scrape_fail' = kind
  /\ all_products' = <<>>
  /\ page_products' = <<>>
  /\ log' = log \cup {IF kind = "fetch" THEN "error" ELSE "warning"}
  /\ pc' = "write"
  /\ UNCHANGED pending

\* an exception get_laptop_page_products does not handle leaves it and the
\* with block
Propagate(exc) ==
  /\ pending' = exc
  /\ pc' = "with_exit"
  /\ UNCHANGED <<page_products, all_products, products, returned, scrape_fail,
                 log>>

\* session.get(...) and raise_for_status() for page page_num: the page
\* arrives, or the request fails after the retries (RequestException)
FetchPage ==
  /\ pc = "fetch"
  /\ fetched' = Append(fetched, page_num)
  /\ misuse' = (misuse \/ http # "open")
  /\ \/ \E s \in Soups(page_num) :
          /\ soup' = s
          /\ site' = Append(site, s)
          /\ blk' = 1
          /\ page_products' = <<>>
          /\ pc' = "parse"
          /\ UNCHANGED <<all_products, products, returned, scrape_fail, log,
                         pending>>
     \/ /\ IF caught_by_scrape("RequestException")
           THEN ReturnEmpty("fetch", all_products)
           ELSE Propagate("RequestException")
        /\ UNCHANGED <<soup, site, blk>>
  /\ UNCHANGED <<resVars, page_num, num_pages, file, success_log,
                 writes, calls, clicks, interrupted_at, probe>>
  /\ UNCHANGED endVars

\* one element of "[parse_single_product(product) for product in products]"
ParseBlock ==
  /\ pc = "parse"
  /\ blk <= soup.nblocks
  /\ \E product \in SiteBlocks(page_num, blk) :
     LET r == list_element(product, DriverState) IN
     /\ soup' = [soup EXCEPT !.blocks = Append(@, product)]
     /\ site' = [site EXCEPT ![page_num].blocks = Append(@, product)]
     /\ calls' = Append(calls, product.title)
     /\ clicks' = clicks \o [j \in 1..Len(r.clicked) |->
                               <<product.title, r.clicked[j]>>]
     /\ misuse' = (misuse \/ DriverState = "closed")
     /\ IF r.exc = "none"
        THEN /\ page_products' = Append(page_products, r.product)
             /\ blk' = blk + 1
             /\ UNCHANGED <<pc, all_products, products, returned, scrape_fail,
                            log, pending, interrupted_at>>
        ELSE /\ IF caught_by_scrape(r.exc)
                THEN ReturnEmpty("block", all_products)
                ELSE Propagate(r.exc)
             /\ interrupted_at' =
                  IF r.exc = "KeyboardInterrupt" /\ interrupted_at = "none"
                  THEN pc ELSE interrupted_at
             /\ UNCHANGED blk
  /\ UNCHANGED <<resVars, page_num, num_pages, file, success_log, writes,
                 fetched, probe>>
  /\ UNCHANGED endVars

\* the page's list is complete: it becomes (page 1) or extends all_products;
\* after page 1 get_num_pages is read; then the next page is fetched or
\* all_products is returned
EndPage ==
  /\ pc = "parse"
  /\ blk > soup.nblocks
  /\ LET n == IF page_num = 1 THEN get_num_pages(soup)
              ELSE [exc |-> "none", val |-> num_pages]
         all == IF page_num = 1 THEN page_products
                ELSE extend(all_products, page_products)
     IN
     IF n.exc # "none"
     THEN /\ IF caught_by_scrape(n.exc)
             THEN ReturnEmpty("pagination", all)
             ELSE Propagate(n.exc)
          /\ UNCHANGED <<num_pages, page_num>>
     ELSE /\ num_pages' = n.val
          /\ page_products' = <<>>
          /\ UNCHANGED <<scrape_fail>>
          /\ IF page_num + 1 <= n.val
             THEN /\ page_num' = page_num + 1
                  /\ all_products' = all
                  /\ pc' = "fetch"
                  /\ UNCHANGED <<products, returned, log, pending>>
             ELSE /\ products' = all
                  /\ returned' = TRUE
                  /\ all_products' = <<>>
                  /\ log' = log \cup {"found"}
                  /\ pc' = "write"
                  /\ UNCHANGED <<page_num, pending>>
  /\ UNCHANGED <<resVars, soup, blk, file, success_log, writes,
                 interrupted_at, misuse, probe>>
  /\ UNCHANGED <<histVars, endVars>>

\* write_products_to_csv(products): the file is replaced by the header and
\* one row per product; or open() fails and the file is left as it was; or
\* writing fails after open() truncated the file
WriteCsv ==
  /\ pc = "write"
  /\ \/ /\ file' = csv_rows(products)
        /\ writes' = writes + 1
        /\ pc' = "log"
        /\ UNCHANGED <<pending, write_failed>>
     \/ /\ file' \in {file, <<>>}
        /\ pending' = "OSError"
        /\ write_failed' = TRUE
        /\ pc' = "with_exit"
        /\ UNCHANGED writes
  /\ UNCHANGED <<resVars, page_num, num_pages, soup, blk, page_products,
                 all_products, products, returned, log, success_log,
                 scrape_fail, interrupted_at, misuse, probe>>
  /\ UNCHANGED <<histVars, handled, main_raised>>

\* logging.info(f"... {len(products)} ...")
LogSuccess ==
  /\ pc = "log"
  /\ success_log' = Len(products)
  /\ log' = log \cup {"success"}
  /\ pc' = "with_exit"
  /\ UNCHANGED <<resVars, page_num, num_pages, soup, blk, page_products,
                 all_products, products, returned, pending, file, writes,
                 scrape_fail, interrupted_at, misuse, probe>>
  /\ UNCHANGED <<histVars, endVars>>

\* variant: the browser quits only when the block ends normally
WithExitNoQuit ==
  /\ pc = "with_exit"
  /\ browser' = IF pending = "none" THEN "closed" ELSE browser
  /\ pc' = IF pending = "none" THEN "finally"
           ELSE IF pending = "KeyboardInterrupt" THEN "except_kb"
           ELSE "except_exc"
  /\ UNCHANGED <<driver, http, page_num, num_pages, soup, blk, page_products,
                 all_products, products, returned, pending, scrape_fail,
                 interrupted_at, misuse, probe>>
  /\ UNCHANGED <<histVars, outVars, endVars>>

\* leaving the with block, normally or by exception: the browser quits, then
\* the exception, if any, reaches the except clauses
WithExit ==
  /\ pc = "with_exit"
  /\ browser' = "closed"
  /\ pc' = IF pending = "none" THEN "finally"
           ELSE IF pending = "KeyboardInterrupt" THEN "except_kb"
           ELSE "except_exc"
  /\ UNCHANGED <<driver, http, page_num, num_pages, soup, blk, page_products,
                 all_products, products, returned, pending, scrape_fail,
                 interrupted_at, misuse, probe>>
  /\ UNCHANGED <<histVars, outVars, endVars>>

\* "except KeyboardInterrupt": a warning is logged
ExceptKeyboardInterrupt ==
  /\ pc = "except_kb"
  /\ handled' = pending
  /\ pending' = "none"
  /\ log' = log \cup {"interrupt_warning"}
  /\ pc' = "finally"
  /\ UNCHANGED <<resVars, page_num, num_pages, soup, blk, page_products,
                 all_products, products, returned, file, success_log, writes,
                 scrape_fail, interrupted_at, misuse, main_raised, write_failed,
                 probe>>
  /\ UNCHANGED histVars

\* "except Exception": a critical message is logged
ExceptException ==
  /\ pc = "except_exc"
  /\ handled' = pending
  /\ pending' = "none"
  /\ log' = log \cup {"critical"}
  /\ pc' = "finally"
  /\ UNCHANGED <<resVars, page_num, num_pages, soup, blk, page_products,
                 all_products, products, returned, file, success_log, writes,
                 scrape_fail, interrupted_at, misuse, main_raised, write_failed,
                 probe>>
  /\ UNCHANGED histVars

\* "finally: session.close()"; an exception raised inside a handler leaves
\* main afterwards
Finally ==
  /\ pc = "finally"
  /\ http' = "closed"
  /\ log' = log \cup {"released"}
  /\ main_raised' = pending
  /\ pc' = "done"
  /\ UNCHANGED <<browser, driver, page_num, num_pages, soup, blk,
                 page_products, all_products, products, returned, pending,
                 file, success_log, writes, scrape_fail, handled, interrupted_at,
                 write_failed, misuse, probe>>
  /\ UNCHANGED histVars

\* Ctrl+C while main is at pc: no function below main catches
\* KeyboardInterrupt, so it arrives at the with block's exit (inside the
\* block), at main's handler (before the block) or, raised inside a handler,
\* at the finally clause.  During the write the file may already have been
\* truncated by open().
Interrupt ==
  /\ pc \in {"start", "fetch", "parse", "write", "log", "with_exit",
             "except_kb", "except_exc"}
  /\ pc = "with_exit" => pending = "none"
  /\ pending' = "KeyboardInterrupt"
  /\ interrupted_at' = IF interrupted_at = "none" THEN pc ELSE interrupted_at
  /\ pc' = IF pc = "start" THEN "except_kb"
           ELSE IF pc \in {"except_kb", "except_exc"} THEN "finally"
           ELSE "with_exit"
  /\ file' \in IF pc = "write" THEN {file, <<>>} ELSE {file}
  /\ UNCHANGED <<resVars, page_num, num_pages, soup, blk, page_products,
                 all_products, products, returned, scrape_fail, misuse, probe>>
  /\ UNCHANGED <<histVars, log, success_log, writes, endVars>>

Next ==
  \/ StartBrowser
  \/ FetchPage
  \/ ParseBlock
  \/ EndPage
  \/ WriteCsv
  \/ LogSuccess
  \/ WithExit
  \/ ExceptKeyboardInterrupt
  \/ ExceptException
  \/ Finally
  \/ Interrupt

Spec == Init /\ [][Next]_vars

\* ----------------------------------------- single calls on chosen arguments
\* every button a detail page can show: disabled ones, and enabled ones
\* whose click and price read go well or fail in one of the possible ways
ButtonKinds ==
  { Button(TRUE, v, "ok", Present(<<"$", "5">>)) : v \in ConfigNames }
    \cup { Button(FALSE, v, "ok", Present(t)) :
             v \in ConfigNames, t \in PriceTexts \cup {<<"$", "x">>} }
    \cup { Button(FALSE, v, "ok", Absent) : v \in ConfigNames }
    \cup { Button(FALSE, v, c, Present(<<"$", "5">>)) :
             v \in ConfigNames, c \in {"stale", "interrupt"} }

RECURSIVE ButtonSeqs(_)
ButtonSeqs(n) ==
  IF n = 0 THEN {<<>>}
  ELSE { Append(bs, b) : bs \in ButtonSeqs(n - 1), b \in ButtonKinds }

DetailPages ==
  { [nav |-> TRUE, swatches |-> TRUE, buttons |-> bs] :
      bs \in UNION {ButtonSeqs(n) : n \in 0..MaxButtons} }
    \cup { [nav |-> FALSE, swatches |-> TRUE, buttons |-> <<>>], NoVariants }

HddArgs ==
  { [product |-> Block(1, 1, Present(<<"$", "9">>), Present(<<"4", " ", "r">>), d),
     drv |-> "open"] : d \in DetailPages }
    \cup { [product |-> Block(1, 1, Present(<<"$", "9">>),
                              Present(<<"4", " ", "r">>), ThreeButtons),
            drv |-> v] : v \in {"none", "closed"} }
    \cup { [product |-> [Block(1, 1, Present(<<"$", "9">>),
                               Present(<<"4", " ", "r">>), ThreeButtons)
                           EXCEPT !.title_elem = FALSE],
            drv |-> "open"] }

HddInit ==
  /\ MainInit
  /\ probe \in { [fn |-> "hdd", arg |-> a, done |-> FALSE, res |-> 0] :
                   a \in HddArgs }

CallHdd ==
  /\ probe.fn = "hdd"
  /\ ~probe.done
  /\ probe' = [probe EXCEPT
                 !.done = TRUE,
                 !.res = parse_hdd_block_prices(probe.arg.product,
                                                probe.arg.drv)]
  /\ UNCHANGED mainVars

HddNext == CallHdd

SpecHdd == HddInit /\ [][HddNext]_vars

\* texts a pagination entry can show
LiTexts ==
  {PrevLi, NextLi, <<>>, <<" ", "2", " ">>}
    \cup {NumText(n) : n \in 0..MaxPages}

RECURSIVE LiSeqs(_)
LiSeqs(n) ==
  IF n = 0 THEN {<<>>}
  ELSE { Append(ls, t) : ls \in LiSeqs(n - 1), t \in LiTexts }

\* a control listing pages 1..k with or without the "previous" entry
PagesArgs ==
  {NoPagination}
    \cup { [present |-> TRUE, lis |-> ls] :
             ls \in UNION {LiSeqs(n) : n \in 0..MaxLis} }
    \cup { ListedPagination(k) : k \in 1..MaxPages }
    \cup { [present |-> TRUE, lis |-> PageLis(k) \o <<NextLi>>] :
             k \in 1..MaxPages }

PagesInit ==
  /\ MainInit
  /\ probe \in { [fn |-> "pages",
                  arg |-> [nblocks |-> 0, blocks |-> <<>>, pagination |-> pg],
                  done |-> FALSE, res |-> 0] : pg \in PagesArgs }

CallPages ==
  /\ probe.fn = "pages"
  /\ ~probe.done
  /\ probe' = [probe EXCEPT !.done = TRUE, !.res = get_num_pages(probe.arg)]
  /\ UNCHANGED mainVars

PagesNext == CallPages

SpecPages == PagesInit /\ [][PagesNext]_vars

\* ================================================================ claims
Titles(ps) == [i \in 1..Len(ps) |-> ps[i].title]

\* titles of all blocks of the pages in ss, page by page, in document order
RECURSIVE SiteTitles(_)
SiteTitles(ss) ==
  IF ss = <<>> THEN <<>>
  ELSE SiteTitles(SubSeq(ss, 1, Len(ss) - 1))
         \o [i \in 1..Len(ss[Len(ss)].blocks) |-> ss[Len(ss)].blocks[i].title]

RECURSIVE SumBlocks(_)
SumBlocks(ss) ==
  IF ss = <<>> THEN 0 ELSE Head(ss).nblocks + SumBlocks(Tail(ss))

OneTo(n) == [i \in 1..n |-> i]

HeaderRow ==
  <<"title", "description", "price", "rating", "num_of_reviews",
    "additional_info">>

\* get_laptop_page_products returned all_products from its try block
ScrapeSucceeded == returned /\ scrape_fail = "none"

\* C1: when every fetch and every parse succeeds and page 1 reports N pages,
\* pages 1..N are fetched in order and the result is the products of pages
\* 1, 2, ..., N in page order, each page in document order: as many products
\* as there are blocks, none dropped, duplicated or reordered.
C1_ConcatenationInPageOrder ==
  ScrapeSucceeded =>
    /\ Len(site) = num_pages
    /\ fetched = OneTo(num_pages)
    /\ site[1].pagination.present =>
         site[1].pagination = ListedPagination(num_pages)
    /\ ~site[1].pagination.present => num_pages = 1
    /\ Len(products) = SumBlocks(site)
    /\ Titles(products) = SiteTitles(site)

C1_Witness ==
  /\ ScrapeSucceeded
  /\ num_pages = 3
  /\ \A i \in 1..3 : site[i].nblocks = 2
  /\ Len(products) = 6

\* the last request got no page
FetchFailed == Len(fetched) > Len(site)

\* C2: a fetch failure on page i makes get_laptop_page_products return the
\* empty collection without raising; pages 1..i were requested and none
\* after i; for i = 1 nothing was parsed; products of pages 1..i-1 are gone.
C2_FetchFailureReturnsEmpty ==
  FetchFailed =>
    /\ returned
    /\ products = <<>>
    /\ scrape_fail = "fetch"
    /\ "RequestException" \notin {pending, handled, main_raised}
    /\ fetched = OneTo(Len(site) + 1)
    /\ Len(fetched) = 1 => calls = <<>>
    /\ "error" \in log

C2_Witness ==
  /\ FetchFailed
  /\ Len(fetched) = 2
  /\ Len(calls) = 2
  /\ pc = "done"

HddDone == probe.fn = "hdd" /\ probe.done

HddButtons == probe.arg.product.detail.buttons

EnabledIdx == {i \in 1..Len(HddButtons) : ~HddButtons[i].disabled}

DisabledIdx == {i \in 1..Len(HddButtons) : HddButtons[i].disabled}

\* the detail page opens and every enabled button can be clicked and shows a
\* numeric price
AllReadable ==
  /\ probe.arg.drv = "open"
  /\ probe.arg.product.title_elem
  /\ probe.arg.product.detail.nav
  /\ probe.arg.product.detail.swatches
  /\ \A i \in EnabledIdx :
       /\ HddButtons[i].click = "ok"
       /\ HddButtons[i].price.present
       /\ HddButtons[i].price.text \in PriceTexts

\* the indexes in S in increasing order
RECURSIVE Ascending(_)
Ascending(S) ==
  IF S = {} THEN <<>>
  ELSE LET m == CHOOSE x \in S : \A y \in S : y <= x
       IN Append(Ascending(S \ {m}), m)

\* C3 as stated: on a readable detail page the mapping has one entry per
\* enabled button (as many entries as enabled buttons), no key of a disabled
\* button, and no disabled button is clicked.
C3_OneEntryPerEnabledButton ==
  (HddDone /\ AllReadable) =>
    /\ Cardinality(DOMAIN probe.res.prices) = Cardinality(EnabledIdx)
    /\ \A i \in DisabledIdx : HddButtons[i].value \notin DOMAIN probe.res.prices
    /\ \A j \in 1..Len(probe.res.clicked) :
         probe.res.clicked[j] \notin DisabledIdx

\* C3 amended: on a readable detail page the keys of the mapping are exactly
\* the values of the enabled buttons, each mapped to the price read after the
\* last enabled button with that value; there are as many entries as enabled
\* buttons when their values are pairwise distinct; a disabled button's value
\* is a key only if an enabled button has the same value; exactly the enabled
\* buttons are clicked, in document order.
C3_KeysAreEnabledValues ==
  (HddDone /\ AllReadable) =>
    /\ DOMAIN probe.res.prices = {HddButtons[i].value : i \in EnabledIdx}
    /\ \A i \in EnabledIdx :
         (\A j \in EnabledIdx : j > i => HddButtons[j].value # HddButtons[i].value)
           => probe.res.prices[HddButtons[i].value]
                = (IF HddButtons[i].price.text = <<"$", "5">> THEN 5 ELSE 17)
    /\ (\A i, j \in EnabledIdx : i # j => HddButtons[i].value # HddButtons[j].value)
         => Cardinality(DOMAIN probe.res.prices) = Cardinality(EnabledIdx)
    /\ \A i \in DisabledIdx :
         HddButtons[i].value \in DOMAIN probe.res.prices
           => \E j \in EnabledIdx : HddButtons[j].value = HddButtons[i].value
    /\ probe.res.clicked = Ascending(EnabledIdx)
    /\ probe.res.caught = "none"
    /\ probe.res.raised = "none"

C3_Witness ==
  /\ HddDone
  /\ AllReadable
  /\ Len(HddButtons) = 3
  /\ DisabledIdx = {2}
  /\ Cardinality(DOMAIN probe.res.prices) = 2
  /\ probe.res.clicked = <<1, 3>>

\* C4 as stated: an exception after k recorded prices makes the function
\* return exactly the k entries collected so far, without raising.
C4_ReturnsCollectedOnException ==
  (HddDone /\ probe.res.caught # "none") =>
    /\ probe.res.raised = "none"
    /\ probe.res.prices = probe.res.collected

\* C4 amended: an exception derived from Exception after k >= 0 recorded
\* prices makes the function abandon the remaining buttons and return the
\* empty mapping, whatever k is: the k entries collected are discarded; the
\* exception is not raised.
C4_ReturnsEmptyOnException ==
  (HddDone /\ probe.res.caught # "none") =>
    /\ probe.res.raised = "none"
    /\ probe.res.prices = EmptyDict
    /\ Len(probe.res.clicked) <= Len(HddButtons)
    /\ Cardinality(DOMAIN probe.res.collected) <= Len(probe.res.clicked)

C4_Witness ==
  /\ HddDone
  /\ probe.res.caught = "WebDriverException"
  /\ Cardinality(DOMAIN probe.res.collected) = 2
  /\ Len(HddButtons) = 3
  /\ probe.res.prices = EmptyDict

PagesDone == probe.fn = "pages" /\ probe.done

PagesLis == probe.arg.pagination.lis

\* C5: get_num_pages is 1 without a pagination control; for a control that
\* lists pages 1..k before the "next" entry it is k, the number in the
\* second-to-last entry, an integer >= 1.
C5_PageCount ==
  PagesDone =>
    /\ ~probe.arg.pagination.present => probe.res = [exc |-> "none", val |-> 1]
    /\ \A k \in 1..MaxPages :
         ( /\ probe.arg.pagination.present
           /\ PagesLis \in {<<PrevLi>> \o PageLis(k) \o <<NextLi>>,
                            PageLis(k) \o <<NextLi>>} )
           => /\ probe.res.exc = "none"
              /\ probe.res.val = k
              /\ probe.res.val >= 1
              /\ PagesLis[Len(PagesLis) - 1] = NumText(probe.res.val)

C5_Witness ==
  /\ PagesDone
  /\ probe.arg.pagination = ListedPagination(3)
  /\ probe.res = [exc |-> "none", val |-> 3]

\* the block with title t, as the site served it
BlockAt(t) == site[t[1]].blocks[t[2]]

\* the static fields of the block cannot be parsed
Malformed(t) == BlockAt(t) \in BadBlocks(t[1], t[2])

\* C6: a block whose static fields fail to parse aborts the whole run: it is
\* the last block handed to parse_single_product, its page is the last page
\* fetched, get_laptop_page_products catches the failure itself and hands
\* main the empty collection, so nothing parsed before it is delivered.
C6_BlockFailureAbortsRun ==
  \A i \in 1..Len(calls) :
    Malformed(calls[i]) =>
      /\ i = Len(calls)
      /\ Len(fetched) = calls[i][1]
      /\ Len(site) = calls[i][1]
      /\ scrape_fail = "block"
      /\ returned
      /\ products = <<>>
      /\ page_products = <<>>
      /\ all_products = <<>>
      /\ writes = 1 => Len(file) = 1

C6_Witness ==
  /\ pc = "done"
  /\ scrape_fail = "block"
  /\ num_pages = 3
  /\ Len(calls) = 3
  /\ Malformed(calls[3])
  /\ calls[3] = <<2, 1>>
  /\ site[2].nblocks = 2

C8_CsvShape ==
  writes = 1 =>
    /\ file[1] = HeaderRow
    /\ Len(file) = Len(products) + 1
    /\ \A i \in 1..Len(products) :
         /\ Len(file[i + 1]) = Len(file[1])
         /\ \A j \in 1..Len(file[1]) : file[i + 1][j] = products[i][file[1][j]]

C8_Witness ==
  /\ writes = 1
  /\ Len(products) = 3
  /\ DOMAIN products[2].additional_info.hdd_prices # {}
  /\ file[3][6] = products[2].additional_info

\* C9 as stated: every run performs exactly one write before it ends.
C9_ExactlyOneWrite == pc = "done" => writes = 1

\* C9 amended: every run starts with an empty collection and writes the file
\* at most once; it writes exactly once when the browser starts, no interrupt
\* arrives before the write has completed and the write itself does not fail
\* (so also after a fetch or parse failure), and not at all otherwise.
C9_AtMostOneWrite ==
  /\ pc = "start" => (products = <<>> /\ all_products = <<>>)
  /\ writes <= 1
  /\ pc = "done" =>
       ( writes = 1 <=>
           /\ browser # "none"
           /\ interrupted_at \notin {"start", "fetch", "parse", "write"}
           /\ ~write_failed )

C9_Witness ==
  /\ pc = "done"
  /\ writes = 1
  /\ scrape_fail = "fetch"
  /\ interrupted_at = "none"

\* C10: when get_laptop_page_products fails with a fetch or parse failure,
\* on whatever page, main gets the empty collection; unless an interrupt or
\* an I/O error stops it, it writes the file, which then holds the header
\* row only, and logs success with 0 products.
C10_FailureWritesHeaderOnly ==
  scrape_fail # "none" =>
    /\ returned
    /\ products = <<>>
    /\ writes = 1 => file = <<HeaderRow>>
    /\ success_log \in {-1, 0}
    /\ (pc = "done" /\ interrupted_at = "none" /\ ~write_failed) =>
         /\ writes = 1
         /\ success_log = 0
         /\ "success" \in log
         /\ "critical" \notin log
         /\ handled = "none"

C10_Witness ==
  /\ pc = "done"
  /\ scrape_fail = "block"
  /\ Len(site) = 2
  /\ Len(calls) = 4
  /\ writes = 1
  /\ file = <<HeaderRow>>
  /\ success_log = 0

====
